---------------------------- MODULE Spec2Model ----------------------------
(***************************************************************************)
(* Model of kvdb/src/lib.rs: the packed DBTransaction encoder, its         *)
(* DataOpIterator, and the KeyValueDB trait with its default write().      *)
(*                                                                         *)
(* Byte strings are sequences of numbers.  Rust indices are 0-based; the   *)
(* cursors pos and index_pos keep their 0-based values and every access    *)
(* into a TLA+ sequence adds one.                                          *)
(***************************************************************************)
EXTENDS Integers, Sequences, FiniteSets, TLC

\* ------------------------------------------------------------------ bounds

\* Number of put / put_vec / delete calls made on one transaction.
MaxOps == 2

\* Column ids, keys and values the callers pass.  The empty string is a
\* legal key and a legal value; keys and values share bytes so that a
\* decoder reading at a wrong offset or with swapped lengths yields a
\* different string.
Cols == {0, 1}
Keys == {<< >>, <<1>>, <<1, 2>>}
Values == {<< >>, <<2>>, <<2, 1>>}

\* Number of transactions written to one backend.
MaxWrites == 2

\* Capacity hints handed to with_capacity.
Caps == {0, 1, 256}

\* The readers that may hold an iterator of the transaction at one time.
Readers == {1, 2}

\* ------------------------------------------------------- DBTransaction

\* enum DBOpIndex
InsertIndex(col, key_len, value_len) ==
    [tag |-> "Insert", col |-> col, key_len |-> key_len, value_len |-> value_len]

DeleteIndex(col, key_len) ==
    [tag |-> "Delete", col |-> col, key_len |-> key_len]

\* Vec::with_capacity reserves room and holds no element: the capacity is
\* no part of the vector's contents (nor of the derived PartialEq).
with_capacity(cap) ==
    [ops |-> << >>, index |-> << >>]

new ==
    with_capacity(256)

\* put with the value's bytes packed ahead of the key's.
put_value_first(t, col, key, value) ==
    [ops |-> (t.ops \o value) \o key,
     index |-> Append(t.index, InsertIndex(col, Len(key), Len(value)))]

\* put that does nothing when the last descriptor already records the same
\* insert.
put_idempotent(t, col, key, value) ==
    IF /\ t.index # << >>
       /\ t.index[Len(t.index)] = InsertIndex(col, Len(key), Len(value))
    THEN t
    ELSE [ops |-> (t.ops \o key) \o value,
          index |-> Append(t.index, InsertIndex(col, Len(key), Len(value)))]

put(t, col, key, value) ==
    [ops |-> (t.ops \o key) \o value,
     index |-> Append(t.index, InsertIndex(col, Len(key), Len(value)))]

\* &value[..] of a Bytes is the whole of its contents.
put_vec(t, col, key, value) ==
    put(t, col, key, SubSeq(value, 1, Len(value)))

\* delete that records the descriptor and leaves the key's bytes out.
delete_no_bytes(t, col, key) ==
    [ops |-> t.ops,
     index |-> Append(t.index, DeleteIndex(col, Len(key)))]

delete(t, col, key) ==
    [ops |-> t.ops \o key,
     index |-> Append(t.index, DeleteIndex(col, Len(key)))]

\* iter whose descriptor cursor starts one too far.
iter_skip_first ==
    [pos |-> 0, index_pos |-> 1]

\* DBTransaction::iter; the iterator's tx field is the borrowed transaction,
\* which is the variable tx below.
iter ==
    [pos |-> 0, index_pos |-> 0]

\* ------------------------------------------------------- DataOpIterator

\* enum DataOp
DataInsert(col, key, val) ==
    [tag |-> "Insert", col |-> col, key |-> key, val |-> val]

DataDelete(col, key) ==
    [tag |-> "Delete", col |-> col, key |-> key]

None == [tag |-> "None"]

\* &s[a..b] panics unless a <= b <= s.len().
SliceOk(s, a, b) == a <= b /\ b <= Len(s)

Slice(s, a, b) == SubSeq(s, a + 1, b)

Panic(it) == [it |-> it, ret |-> None, panic |-> TRUE]

\* next that advances pos past an Insert's key only, not past its value.
next_skip_value(t, it) ==
    IF it.index_pos = Len(t.index)
    THEN [it |-> it, ret |-> None, panic |-> FALSE]
    ELSE IF it.index_pos > Len(t.index)
    THEN Panic(it)
    ELSE LET d == t.index[it.index_pos + 1]
         IN  IF d.tag = "Insert"
             THEN IF /\ SliceOk(t.ops, it.pos, it.pos + d.key_len)
                     /\ SliceOk(t.ops, it.pos + d.key_len,
                                it.pos + d.key_len + d.value_len)
                  THEN [it |-> [pos |-> it.pos + d.key_len,
                                index_pos |-> it.index_pos + 1],
                        ret |-> DataInsert(d.col,
                                   Slice(t.ops, it.pos, it.pos + d.key_len),
                                   Slice(t.ops, it.pos + d.key_len,
                                         it.pos + d.key_len + d.value_len)),
                        panic |-> FALSE]
                  ELSE Panic(it)
             ELSE IF SliceOk(t.ops, it.pos, it.pos + d.key_len)
                  THEN [it |-> [pos |-> it.pos + d.key_len,
                                index_pos |-> it.index_pos + 1],
                        ret |-> DataDelete(d.col,
                                   Slice(t.ops, it.pos, it.pos + d.key_len)),
                        panic |-> FALSE]
                  ELSE Panic(it)

\* DataOpIterator::next on the iterator it over the transaction t: the
\* iterator afterwards, the value returned, and whether the call panicked
\* (a slice or an index out of range).
next(t, it) ==
    IF it.index_pos = Len(t.index)
    THEN [it |-> it, ret |-> None, panic |-> FALSE]
    ELSE IF it.index_pos > Len(t.index)
    THEN Panic(it)
    ELSE LET d == t.index[it.index_pos + 1]
         IN  IF d.tag = "Insert"
             THEN IF /\ SliceOk(t.ops, it.pos, it.pos + d.key_len)
                     /\ SliceOk(t.ops, it.pos + d.key_len,
                                it.pos + d.key_len + d.value_len)
                  THEN [it |-> [pos |-> it.pos + (d.key_len + d.value_len),
                                index_pos |-> it.index_pos + 1],
                        ret |-> DataInsert(d.col,
                                   Slice(t.ops, it.pos, it.pos + d.key_len),
                                   Slice(t.ops, it.pos + d.key_len,
                                         it.pos + d.key_len + d.value_len)),
                        panic |-> FALSE]
                  ELSE Panic(it)
             ELSE IF SliceOk(t.ops, it.pos, it.pos + d.key_len)
                  THEN [it |-> [pos |-> it.pos + d.key_len,
                                index_pos |-> it.index_pos + 1],
                        ret |-> DataDelete(d.col,
                                   Slice(t.ops, it.pos, it.pos + d.key_len)),
                        panic |-> FALSE]
                  ELSE Panic(it)

\* ------------------------------------------------------------ KeyValueDB

\* Option<T>
Some(v) == [tag |-> "Some", val |-> v]

\* A (column, key) -> value map: a function whose domain is the set of
\* <<col, key>> pairs that are present.
EmptyMap == [s \in {} |-> << >>]

Lookup(m, col, key) ==
    IF <<col, key>> \in DOMAIN m THEN Some(m[<<col, key>>]) ELSE None

\* A store applying one DataOp to its map: an Insert sets the value of
\* (col, key), a Delete removes (col, key).
ApplyOp(m, op) ==
    IF op.tag = "Insert"
    THEN [s \in DOMAIN m \cup {<<op.col, op.key>>} |->
             IF s = <<op.col, op.key>> THEN op.val ELSE m[s]]
    ELSE [s \in DOMAIN m \ {<<op.col, op.key>>} |-> m[s]]

\* Sequential application of DataOps, first to last.
RECURSIVE Replay(_, _)
Replay(m, dataops) ==
    IF dataops = << >> THEN m
    ELSE Replay(ApplyOp(m, Head(dataops)), Tail(dataops))

\* for op in transaction.iter() { .. }: the DataOps a backend receives when
\* it drives an iterator over t until next() returns None.
RECURSIVE DrainFrom(_, _)
DrainFrom(t, it) ==
    LET res == next(t, it)
    IN  IF res.panic \/ res.ret = None THEN << >>
        ELSE <<res.ret>> \o DrainFrom(t, res.it)

Drain(t) == DrainFrom(t, iter)

\* A backend: view is what get reads (flushed data overlaid with the
\* buffered writes), flushed is the backing store, trace lists the trait
\* methods called on it since the caller's last call began.
NewDb == [view |-> EmptyMap, flushed |-> EmptyMap, trace |-> << >>]

Ok == [tag |-> "Ok"]

Unit == [tag |-> "Unit"]

IoError == [tag |-> "Err"]

\* KeyValueDB::get
get(d, col, key) == Lookup(d.view, col, key)

\* KeyValueDB::iter: the (key, value) pairs of a column, flushed data only.
db_iter(d, col) ==
    {<<s[2], d.flushed[s]>> : s \in {x \in DOMAIN d.flushed : x[1] = col}}

IsPrefix(p, k) == Len(p) <= Len(k) /\ SubSeq(k, 1, Len(p)) = p

\* KeyValueDB::get_by_prefix: the results a backend may give, flushed data
\* only; which of several matching keys it takes is the backend's choice.
get_by_prefix(d, col, prefix) ==
    LET hits == {kv \in db_iter(d, col) : IsPrefix(prefix, kv[1])}
    IN  IF hits = {} THEN {None} ELSE {Some(kv[2]) : kv \in hits}

\* KeyValueDB::write_buffered: every op of the transaction is applied, in
\* order, to the buffer; nothing is returned.
write_buffered(d, t) ==
    [d EXCEPT !.view = Replay(d.view, Drain(t)),
              !.trace = Append(d.trace, [fn |-> "write_buffered", t |-> t])]

\* KeyValueDB::flush, with the outcome ok of the underlying storage: the
\* backend afterwards and the io::Result returned.
flush(d, ok) ==
    [db |-> [d EXCEPT !.flushed = IF ok THEN d.view ELSE d.flushed,
                      !.trace = Append(d.trace, [fn |-> "flush", ok |-> ok])],
     res |-> IF ok THEN Ok ELSE IoError]

\* write that flushes what was buffered before and buffers t afterwards.
write_flush_first(d, t, ok) ==
    LET r == flush(d, ok)
    IN  [db |-> write_buffered(r.db, t), res |-> r.res]

\* write that buffers t and returns Ok without flushing.
write_unflushed(d, t, ok) ==
    [db |-> write_buffered(d, t), res |-> Ok]

\* KeyValueDB::write, the provided method.
write(d, t, ok) ==
    LET d1 == write_buffered(d, t)
    IN  flush(d1, ok)

\* The transaction a caller builds by making the calls cs in order.
RECURSIVE BuildTx(_)
BuildTx(cs) ==
    IF cs = << >> THEN new
    ELSE LET c == cs[Len(cs)]
             t == BuildTx(SubSeq(cs, 1, Len(cs) - 1))
         IN  IF c.op = "put" THEN put(t, c.col, c.key, c.value)
                             ELSE delete(t, c.col, c.key)

\* ------------------------------------------------------------- state

VARIABLES
    tx,        \* the DBTransaction under construction / being read
    calls,     \* history: the put / delete calls made on tx, in call order
    alive,     \* alive[r]: reader r holds a DataOpIterator borrowed from tx
    its,       \* its[r]: that iterator's cursors (pos, index_pos)
    out,       \* history: the DataOps next() has returned to reader r
    done,      \* history: next() has returned None to reader r
    panicked,  \* a next() call panicked
    db,        \* the backend behind the KeyValueDB trait
    lastT,     \* history: the calls that built the transaction last written
    lastOp,    \* history: the caller's last KeyValueDB call and flush outcome
    result,    \* what that call returned
    life       \* history: life[i] is the state of the i-th write

txvars == <<tx, calls, alive, its, out, done, panicked>>

dbvars == <<db, lastT, lastOp, result, life>>

vars == <<tx, calls, alive, its, out, done, panicked, db, lastT, lastOp, result, life>>

PutCall(col, key, value) ==
    [op |-> "put", col |-> col, key |-> key, value |-> value]

DeleteCall(col, key) ==
    [op |-> "delete", col |-> col, key |-> key]

\* A &mut borrow of tx needs every shared borrow (every iterator) gone.
Unborrowed == \A r \in Readers : ~alive[r]

Init ==
    /\ tx = new
    /\ calls = << >>
    /\ alive = [r \in Readers |-> FALSE]
    /\ its = [r \in Readers |-> iter]
    /\ out = [r \in Readers |-> << >>]
    /\ done = [r \in Readers |-> FALSE]
    /\ panicked = FALSE
    /\ db = NewDb
    /\ lastT = << >>
    /\ lastOp = [op |-> "none", ok |-> TRUE]
    /\ result = Unit
    /\ life = << >>

\* let mut t = DBTransaction::with_capacity(cap): a fresh transaction
\* replaces the one built so far.
WithCapacity(cap) ==
    /\ ~panicked
    /\ Unborrowed
    /\ tx' = with_capacity(cap)
    /\ calls' = << >>
    /\ UNCHANGED <<alive, its, out, done, panicked>>
    /\ UNCHANGED dbvars

Put(col, key, value) ==
    /\ ~panicked
    /\ Unborrowed
    /\ Len(calls) < MaxOps
    /\ tx' = put(tx, col, key, value)
    /\ calls' = Append(calls, PutCall(col, key, value))
    /\ UNCHANGED <<alive, its, out, done, panicked>>
    /\ UNCHANGED dbvars

PutVec(col, key, value) ==
    /\ ~panicked
    /\ Unborrowed
    /\ Len(calls) < MaxOps
    /\ tx' = put_vec(tx, col, key, value)
    /\ calls' = Append(calls, PutCall(col, key, value))
    /\ UNCHANGED <<alive, its, out, done, panicked>>
    /\ UNCHANGED dbvars

Delete(col, key) ==
    /\ ~panicked
    /\ Unborrowed
    /\ Len(calls) < MaxOps
    /\ tx' = delete(tx, col, key)
    /\ calls' = Append(calls, DeleteCall(col, key))
    /\ UNCHANGED <<alive, its, out, done, panicked>>
    /\ UNCHANGED dbvars

\* let it = tx.iter()
Iter(r) ==
    /\ ~panicked
    /\ ~alive[r]
    /\ alive' = [alive EXCEPT ![r] = TRUE]
    /\ its' = [its EXCEPT ![r] = iter]
    /\ out' = [out EXCEPT ![r] = << >>]
    /\ done' = [done EXCEPT ![r] = FALSE]
    /\ UNCHANGED <<tx, calls, panicked>>
    /\ UNCHANGED dbvars

\* it.next() by reader r
NextOp(r) ==
    /\ ~panicked
    /\ alive[r]
    /\ LET res == next(tx, its[r])
       IN  /\ panicked' = res.panic
           /\ its' = [its EXCEPT ![r] = res.it]
           /\ out' = [out EXCEPT ![r] =
                        IF res.panic \/ res.ret = None THEN @ ELSE Append(@, res.ret)]
           /\ done' = [done EXCEPT ![r] = @ \/ (~res.panic /\ res.ret = None)]
    /\ UNCHANGED <<tx, calls, alive>>
    /\ UNCHANGED dbvars

\* the iterator of reader r goes out of scope
DropIter(r) ==
    /\ ~panicked
    /\ alive[r]
    /\ alive' = [alive EXCEPT ![r] = FALSE]
    /\ its' = [its EXCEPT ![r] = iter]
    /\ out' = [out EXCEPT ![r] = << >>]
    /\ done' = [done EXCEPT ![r] = FALSE]
    /\ UNCHANGED <<tx, calls, panicked>>
    /\ UNCHANGED dbvars

\* ------------------------------------------------- callers of KeyValueDB

\* The transactions written to the backend, as the calls that build them.
DbTxs ==
    { << >>,
      <<PutCall(0, <<1>>, <<2>>)>>,
      <<DeleteCall(0, <<1>>)>>,
      <<PutCall(0, <<1>>, <<2>>), PutCall(0, <<1>>, <<2, 1>>)>>,
      <<PutCall(0, <<1, 2>>, <<2>>), DeleteCall(0, <<1, 2>>)>>,
      <<DeleteCall(0, <<1>>), PutCall(1, <<1>>, <<2, 1>>)>>,
      <<PutCall(1, <<1, 2>>, << >>), PutCall(0, << >>, <<2>>)>>,
      <<PutCall(1, <<1>>, <<2>>), DeleteCall(0, <<1, 2>>)>> }

\* The write states after the trait methods of trace have run: a
\* write_buffered adds a buffered write, a successful flush makes every
\* buffered write flushed.
RECURSIVE LifeAfter(_, _)
LifeAfter(l, trace) ==
    IF trace = << >> THEN l
    ELSE LET e == Head(trace)
         IN  LifeAfter(IF e.fn = "write_buffered" THEN Append(l, "buffered")
                       ELSE IF e.ok THEN [i \in DOMAIN l |-> "flushed"]
                       ELSE l,
                       Tail(trace))

\* db.write_buffered(t)
WriteBuffered(cs) ==
    /\ Len(life) < MaxWrites
    /\ db' = write_buffered([db EXCEPT !.trace = << >>], BuildTx(cs))
    /\ lastT' = cs
    /\ lastOp' = [op |-> "write_buffered", ok |-> TRUE]
    /\ result' = Unit
    /\ life' = LifeAfter(life, db'.trace)
    /\ UNCHANGED txvars

\* db.flush(), the storage succeeding (ok) or failing
Flush(ok) ==
    /\ LET r == flush([db EXCEPT !.trace = << >>], ok)
       IN  /\ db' = r.db
           /\ result' = r.res
    /\ lastOp' = [op |-> "flush", ok |-> ok]
    /\ life' = LifeAfter(life, db'.trace)
    /\ UNCHANGED lastT
    /\ UNCHANGED txvars

\* db.write(t), the storage succeeding (ok) or failing in the flush
Write(cs, ok) ==
    /\ Len(life) < MaxWrites
    /\ LET r == write([db EXCEPT !.trace = << >>], BuildTx(cs), ok)
       IN  /\ db' = r.db
           /\ result' = r.res
    /\ lastT' = cs
    /\ lastOp' = [op |-> "write", ok |-> ok]
    /\ life' = LifeAfter(life, db'.trace)
    /\ UNCHANGED txvars

NextDb ==
    \/ \E cs \in DbTxs : WriteBuffered(cs)
    \/ \E ok \in BOOLEAN : Flush(ok)
    \/ \E cs \in DbTxs, ok \in BOOLEAN : Write(cs, ok)

SpecDb == Init /\ [][NextDb]_vars

Next ==
    \/ \E cap \in Caps : WithCapacity(cap)
    \/ \E col \in Cols, key \in Keys, value \in Values : Put(col, key, value)
    \/ \E col \in Cols, key \in Keys, value \in Values : PutVec(col, key, value)
    \/ \E col \in Cols, key \in Keys : Delete(col, key)
    \/ \E r \in Readers : Iter(r)
    \/ \E r \in Readers : NextOp(r)
    \/ \E r \in Readers : DropIter(r)

Spec == Init /\ [][Next]_vars

\* ---------------------------------------------- what the calls should give

\* The DataOp the iterator owes for one recorded call.
Expected(c) ==
    IF c.op = "put" THEN DataInsert(c.col, c.key, c.value)
                    ELSE DataDelete(c.col, c.key)

ExpectedOps == [i \in 1..Len(calls) |-> Expected(calls[i])]

\* The descriptor the index owes for one recorded call.
ExpectedIndex(c) ==
    IF c.op = "put" THEN InsertIndex(c.col, Len(c.key), Len(c.value))
                    ELSE DeleteIndex(c.col, Len(c.key))

\* Bytes a descriptor accounts for in the packed buffer.
DescLen(d) == d.key_len + (IF d.tag = "Insert" THEN d.value_len ELSE 0)

\* offset(i) of the data model, for the 0-based descriptor number i: the sum
\* of the lengths recorded by the descriptors before it.
RECURSIVE Offset(_, _)
Offset(index, i) ==
    IF i = 0 THEN 0 ELSE Offset(index, i - 1) + DescLen(index[i])

\* ------------------------------------------------------------------ C1

\* C1 (round trip): an iterator over the transaction has yielded exactly one
\* DataOp per call consumed so far, in call order, each an Insert for a put
\* and a Delete for a delete with the column, key bytes and value bytes the
\* call was given; once it has returned None it has yielded all of them.
C1_RoundTrip ==
    /\ ~panicked
    /\ \A r \in Readers :
          alive[r] =>
             /\ its[r].index_pos <= Len(calls)
             /\ out[r] = SubSeq(ExpectedOps, 1, its[r].index_pos)
             /\ done[r] => out[r] = ExpectedOps

\* A drained iterator over put(0, "", [2,1]) ; delete(1, [1,2]).
C1_Witness ==
    \E r \in Readers :
       /\ done[r]
       /\ calls = <<PutCall(0, << >>, <<2, 1>>), DeleteCall(1, <<1, 2>>)>>
       /\ out[r] = <<DataInsert(0, << >>, <<2, 1>>), DataDelete(1, <<1, 2>>)>>

\* ------------------------------------------------------------------ C2

\* C2 (encoding offsets): after every put / delete, descriptor i's key is
\* ops[offset(i) .. offset(i)+key_len[i]], an Insert's value follows it
\* directly, and ops.len() is the sum of all recorded lengths.
C2_OffsetInvariant ==
    /\ Len(tx.index) = Len(calls)
    /\ Len(tx.ops) = Offset(tx.index, Len(tx.index))
    /\ \A i \in 1..Len(calls) :
          LET d == tx.index[i]
              off == Offset(tx.index, i - 1)
          IN  /\ d.key_len = Len(calls[i].key)
              /\ off + d.key_len <= Len(tx.ops)
              /\ Slice(tx.ops, off, off + d.key_len) = calls[i].key
              /\ (calls[i].op = "put") =>
                    /\ d.tag = "Insert"
                    /\ d.value_len = Len(calls[i].value)
                    /\ off + d.key_len + d.value_len <= Len(tx.ops)
                    /\ Slice(tx.ops, off + d.key_len,
                             off + d.key_len + d.value_len) = calls[i].value

\* After put(1, [1,2], [2]) ; put(0, [1], [2,1]): the second key starts at 3.
C2_Witness ==
    /\ calls = <<PutCall(1, <<1, 2>>, <<2>>), PutCall(0, <<1>>, <<2, 1>>)>>
    /\ tx.ops = <<1, 2, 2, 1, 2, 1>>
    /\ Offset(tx.index, 1) = 3

\* ------------------------------------------------------------------ C3

\* C3 (offset consistency): an iterator driven until next() returns None has
\* pos = tx.ops.len() and index_pos = tx.index.len() = the number of calls;
\* no slice was taken past the end of the buffer.
C3_FinalCursor ==
    /\ ~panicked
    /\ \A r \in Readers :
          (alive[r] /\ done[r]) =>
             /\ its[r].pos = Len(tx.ops)
             /\ its[r].index_pos = Len(tx.index)
             /\ Len(tx.index) = Len(calls)

\* A drained iterator over a delete and a put whose buffer holds 5 bytes.
C3_Witness ==
    \E r \in Readers :
       /\ alive[r] /\ done[r]
       /\ calls = <<DeleteCall(0, <<1, 2>>), PutCall(1, <<1>>, <<2, 1>>)>>
       /\ its[r].pos = 5

\* ------------------------------------------------------------------ C6

\* C6 (no deduplication, no reordering): index holds one descriptor per call,
\* in call order, and a drained iterator has replayed one op per call; two
\* puts of the same column and key are both kept and both replayed.
C6_NoDedup ==
    /\ Len(tx.index) = Len(calls)
    /\ \A i \in 1..Len(calls) : tx.index[i] = ExpectedIndex(calls[i])
    /\ \A r \in Readers :
          (alive[r] /\ done[r]) =>
             /\ Len(out[r]) = Len(calls)
             /\ \A i \in 1..Len(calls) :
                   /\ out[r][i].col = calls[i].col
                   /\ out[r][i].key = calls[i].key
                   /\ (out[r][i].tag = "Insert") <=> (calls[i].op = "put")

\* put(0, [1], [2]) twice: two Insert descriptors, two Inserts replayed.
C6_Witness ==
    \E r \in Readers :
       /\ alive[r] /\ done[r]
       /\ calls = <<PutCall(0, <<1>>, <<2>>), PutCall(0, <<1>>, <<2>>)>>
       /\ Len(tx.index) = 2
       /\ tx.index[1] = tx.index[2]
       /\ Len(out[r]) = 2

\* ------------------------------------------------------------------ C4

\* C4 (restartable, read-only iteration): iterators created independently
\* on the same transaction, however their next() calls interleave, have
\* yielded the same ops whenever they stand at the same descriptor, and each
\* yields the full sequence; a next() call changes neither the transaction
\* nor another iterator's cursors.
C4_Restartable ==
    /\ [](\A r1, r2 \in Readers :
             (alive[r1] /\ alive[r2] /\ its[r1].index_pos = its[r2].index_pos)
                => (out[r1] = out[r2] /\ its[r1] = its[r2]))
    /\ [](\A r \in Readers : (alive[r] /\ done[r]) => out[r] = ExpectedOps)
    /\ [][\A r \in Readers :
             NextOp(r) =>
                /\ tx' = tx
                /\ \A q \in Readers \ {r} : its'[q] = its[q] /\ out'[q] = out[q]]_vars

\* Reader 1 has drained its iterator while reader 2, created independently,
\* is half way through the same two operations.
C4_Witness ==
    /\ alive[1] /\ done[1] /\ Len(out[1]) = 2
    /\ alive[2] /\ ~done[2] /\ Len(out[2]) = 1
    /\ out[2][1] = out[1][1]
    /\ out[1][1] # out[1][2]

\* ------------------------------------------------------------------ C9

\* C9 (termination): over a transaction of N operations an iterator that has
\* returned fewer than N ops returns Some on the next call; one that has
\* returned N returns None (so with N = 0 the very first call does), and
\* once None has been returned every further call returns None and moves
\* neither cursor.
C9_Termination ==
    \A r \in Readers :
       alive[r] =>
          LET res == next(tx, its[r])
          IN  /\ ~res.panic
              /\ Len(out[r]) <= Len(calls)
              /\ (Len(out[r]) < Len(calls)) => (res.ret # None /\ ~done[r])
              /\ (Len(out[r]) = Len(calls)) => (res.ret = None /\ res.it = its[r])
              /\ done[r] => (Len(out[r]) = Len(calls) /\ res.ret = None /\ res.it = its[r])

\* None has been returned after exactly two Some.
C9_Witness ==
    \E r \in Readers :
       alive[r] /\ done[r] /\ Len(calls) = 2 /\ Len(out[r]) = 2

\* ----------------------------------------------------------------- C10

\* C10 (in-bounds slicing): at every step of an iterator over a transaction
\* built by put / put_vec / delete, index_pos <= index.len(), pos is the sum
\* of the lengths of the first index_pos descriptors, the slice bounds the
\* next call uses lie within ops, no call panics, and no call moves a cursor
\* backwards.
C10_InBounds ==
    /\ ~panicked
    /\ \A r \in Readers :
          alive[r] =>
             /\ its[r].index_pos <= Len(tx.index)
             /\ its[r].pos = Offset(tx.index, its[r].index_pos)
             /\ (its[r].index_pos < Len(tx.index)) =>
                   LET d == tx.index[its[r].index_pos + 1]
                   IN  /\ its[r].pos + d.key_len <= Len(tx.ops)
                       /\ its[r].pos + DescLen(d) <= Len(tx.ops)
             /\ LET res == next(tx, its[r])
                IN  /\ ~res.panic
                    /\ res.it.pos >= its[r].pos
                    /\ res.it.index_pos >= its[r].index_pos

\* An iterator standing before the last descriptor, whose value slice ends
\* exactly at the end of the buffer.
C10_Witness ==
    \E r \in Readers :
       /\ alive[r]
       /\ its[r].index_pos = 1
       /\ Len(tx.index) = 2
       /\ tx.index[2].tag = "Insert"
       /\ tx.index[2].value_len = 2
       /\ its[r].pos + DescLen(tx.index[2]) = Len(tx.ops)
       /\ its[r].pos > 0

\* ------------------------------------------------------------------ C7

\* What sequential application owes for (col, key) after the calls cs, read
\* off the calls alone: the value of the last put on (col, key), nothing if
\* the last call on it is a delete, and what the map m held if no call
\* names it.
LastIdx(cs, col, key) ==
    LET on == {i \in 1..Len(cs) : cs[i].col = col /\ cs[i].key = key}
    IN  IF on = {} THEN 0 ELSE CHOOSE i \in on : \A j \in on : j <= i

Final(m, cs, col, key) ==
    LET i == LastIdx(cs, col, key)
    IN  IF i = 0 THEN Lookup(m, col, key)
        ELSE IF cs[i].op = "put" THEN Some(cs[i].value) ELSE None

\* Maps the replay starts from.
BaseMap == [s \in {<<1, <<1>>>>, <<0, <<1, 2>>>>} |-> IF s[1] = 1 THEN <<2>> ELSE << >>]

BaseMaps == {EmptyMap, BaseMap}

\* C7 (last write wins): replaying the ops an iterator yielded, in order,
\* onto a (column, key) -> value map leaves every (column, key) with the
\* value of the last put on it, absent if the last call on it is a delete,
\* and untouched if the transaction never names it, the same key bytes in
\* another column included.
C7_LastWriteWins ==
    \A r \in Readers :
       (alive[r] /\ done[r]) =>
          \A m \in BaseMaps :
             LET after == Replay(m, out[r])
             IN  /\ DOMAIN after \subseteq Cols \X Keys
                 /\ \A col \in Cols, key \in Keys :
                       Lookup(after, col, key) = Final(m, calls, col, key)

\* put(0, [1], [2]) ; put(0, [1], [2,1]) replayed onto a map that holds
\* [1] -> [2] in column 1: column 0 ends with [2,1], column 1 keeps [2].
C7_Witness ==
    \E r \in Readers :
       /\ alive[r] /\ done[r]
       /\ calls = <<PutCall(0, <<1>>, <<2>>), PutCall(0, <<1>>, <<2, 1>>)>>
       /\ Lookup(BaseMap, 0, <<1>>) = None
       /\ Lookup(Replay(BaseMap, out[r]), 0, <<1>>) = Some(<<2, 1>>)
       /\ Lookup(Replay(BaseMap, out[r]), 1, <<1>>) = Some(<<2>>)

\* ------------------------------------------------------------------ C5

\* C5 (default write): write(t) calls write_buffered once with t, then flush
\* once, and returns what flush returned; the backend is left as
\* write_buffered followed by flush leave it, so after a failed flush t's
\* operations are in the buffer all the same.
C5_WriteDefault ==
    /\ [](lastOp.op = "write" =>
             /\ db.trace = <<[fn |-> "write_buffered", t |-> BuildTx(lastT)],
                             [fn |-> "flush", ok |-> lastOp.ok]>>
             /\ result = (IF lastOp.ok THEN Ok ELSE IoError)
             /\ \A col \in Cols, key \in Keys :
                   LastIdx(lastT, col, key) # 0 =>
                      get(db, col, key) = Final(EmptyMap, lastT, col, key)
             /\ lastOp.ok => db.flushed = db.view)
    /\ [][\A cs \in DbTxs, ok \in BOOLEAN :
             Write(cs, ok) =>
                LET d1 == write_buffered([db EXCEPT !.trace = << >>], BuildTx(cs))
                    r == flush(d1, ok)
                IN  db' = r.db /\ result' = r.res]_vars

\* A write whose flush failed: the error is returned and the put is in the
\* buffer, not in the backing store.
C5_Witness ==
    /\ lastOp = [op |-> "write", ok |-> FALSE]
    /\ result = IoError
    /\ lastT = <<PutCall(0, <<1>>, <<2>>), PutCall(0, <<1>>, <<2, 1>>)>>
    /\ get(db, 0, <<1>>) = Some(<<2, 1>>)
    /\ db_iter(db, 0) = {}

\* ------------------------------------------------------------------ C8

\* The last transaction written has been flushed: the caller's last call was
\* a flush or a write that returned Ok, or a successful flush came earlier.
LastFlushed ==
    /\ life # << >>
    /\ \/ life[Len(life)] = "flushed"
       \/ lastOp.op \in {"flush", "write"} /\ lastOp.ok

\* C8 as stated: after write_buffered(T) and a successful flush, every key
\* that a put of T names appears in the iteration of its column.
C8_EveryPutKeyAppears ==
    LastFlushed =>
       \A i \in 1..Len(lastT) :
          lastT[i].op = "put" =>
             \E kv \in db_iter(db, lastT[i].col) : kv[1] = lastT[i].key

\* C8 (flush visibility), amended: once T is written, get returns for every
\* (column, key) T names what T's last call on it left; after a successful
\* flush every key whose last call in T is a put appears, with that value, in
\* iter and get_by_prefix finds a value under each of its prefixes.  A write
\* that is flushed stays flushed, and flushed data changes only in a
\* successful flush.
C8_FlushVisibility ==
    /\ [](life # << >> =>
             \A col \in Cols, key \in Keys :
                LET f == Final(EmptyMap, lastT, col, key)
                IN  /\ LastIdx(lastT, col, key) # 0 => get(db, col, key) = f
                    /\ (LastFlushed /\ f # None) =>
                          /\ <<key, f.val>> \in db_iter(db, col)
                          /\ Some(f.val) \in get_by_prefix(db, col, key)
                          /\ \A n \in 0..Len(key) :
                                None \notin get_by_prefix(db, col, SubSeq(key, 1, n)))
    /\ [][/\ \A i \in DOMAIN life :
                life[i] = "flushed" => (i \in DOMAIN life' /\ life'[i] = "flushed")
          /\ db'.flushed # db.flushed =>
                (lastOp'.op \in {"flush", "write"} /\ lastOp'.ok /\ db'.flushed = db'.view)]_vars

\* A second transaction, written buffered and then flushed: its last put of
\* (0, [1]) is what iter shows.
C8_Witness ==
    /\ Len(life) = 2
    /\ life[2] = "flushed"
    /\ lastOp = [op |-> "flush", ok |-> TRUE]
    /\ lastT = <<PutCall(0, <<1>>, <<2>>), PutCall(0, <<1>>, <<2, 1>>)>>
    /\ <<<<1>>, <<2, 1>>>> \in db_iter(db, 0)

=============================================================================
